---- MODULE Spec2Model ----
(***************************************************************************)
(* A model of .github/scripts/monitoring-dashboard.py: one run of main()   *)
(* (credential check, UpstreamMonitor construction, the 30-day collection  *)
(* loop, trend analysis, summary, chart rendering, HTML composition,       *)
(* output writing), and the pure functions it is built from.               *)
(*                                                                         *)
(* Conventions.  A Python datetime is an integer number of ticks, a date   *)
(* an integer day ordinal (day 0 is 2026-01-01); None (for a datetime) is  *)
(* NoneTime.  A Python str that the code searches is a sequence of         *)
(* one-character strings; None (for a str) is NoneText.  A dict is the     *)
(* sequence of its (key, value) items in insertion order.  An evaluation   *)
(* that can raise yields [raised |-> TRUE, exc |-> ...] or                 *)
(* [raised |-> FALSE, val |-> ...].                                        *)
(***************************************************************************)
EXTENDS Integers, Sequences, FiniteSets, TLC

VARIABLES
    GITHUB_TOKEN,       \* the environment's credential, read at import
    pc,                 \* the position of main()
    exit_code,          \* the process exit status, -1 while running
    printed,            \* the last line class printed by main()
    stages,             \* the stages entered so far, in order
    remote_called,      \* whether any remote call was issued
    files,              \* the files this run has written
    today,              \* datetime.date.today() as read by the run
    outage,             \* the day offsets whose collection hits a transport error
    upstream_issues,    \* upstream_repo.get_issues(state="all"), newest first
    upstream_prs,       \* upstream_repo.get_pulls(state="all"), newest first
    upstream_releases,  \* upstream_repo.get_releases()
    downstream_issues,  \* the labelled issues of the downstream repository
    i,                  \* the loop index of generate_dashboard_data
    date,               \* the date of the current or last request
    metrics_data,       \* the ActivityMetrics collected so far
    skipped,            \* the day offsets whose collection raised
    trends,             \* the result of analyze_upstream_trends
    dashboard_data,     \* the result of generate_dashboard_data
    visualizations,     \* the result of create_visualizations
    html_report,        \* the result of generate_html_report
    error,              \* the exception main()'s handler caught
    requested,          \* the dates collect_daily_metrics was called with, in order
    caught              \* the exceptions raised so far: where raised, where caught

vars == << GITHUB_TOKEN, pc, exit_code, printed, stages, remote_called, files,
           today, outage, upstream_issues, upstream_prs, upstream_releases,
           downstream_issues, i, date, metrics_data, skipped, trends,
           dashboard_data, visualizations, html_report, error, requested, caught >>

-----------------------------------------------------------------------------
(* Bounds of the model *)

\* ticks per day: the clock's resolution
TicksPerDay == 2
\* the day ordinal the clock shows
Today0 == 45
\* the longest issue list and task list drawn for a run of main()
MaxItems == 3
\* the longest issue list drawn for the classifier
MaxScan == 2
\* the longest pull request list drawn for the classifier
MaxPrScan == 1
\* the most items scanned beyond one of each of TopN + 1 authors
MaxExtra == 2
\* the longest release list drawn for the release frequency
MaxReleases == 3
\* the longest issue list and task list drawn for collect_daily_metrics
MaxDaily == 1

(* Program constants *)

\* range(30) in generate_dashboard_data
WindowDays == 30
\* [:100] in analyze_upstream_trends
ScanLimit == 100
\* [:10] in analyze_upstream_trends
TopN == 10
\* days_diff / 30 in analyze_upstream_trends
MonthLen == 30

-----------------------------------------------------------------------------
(* Values *)

NoneTime == 0 - 1
NoneText == << "None" >>
Unset == [unset |-> TRUE]

Raise(e) == [raised |-> TRUE, exc |-> e]
Val(v) == [raised |-> FALSE, val |-> v]

\* datetime.date(): AttributeError on None
DateAttr(dt) ==
    IF dt = NoneTime THEN Raise("AttributeError") ELSE Val(dt \div TicksPerDay)

At(day, tick) == day * TicksPerDay + tick

Pad2(n) == IF n < 10 THEN "0" \o ToString(n) ELSE ToString(n)

MonthDays == << 31, 28, 31, 30, 31, 30, 31, 31, 30, 31, 30, 31 >>

RECURSIVE MonthOf(_, _)
MonthOf(d, m) ==
    IF d < MonthDays[m] THEN << m, d + 1 >> ELSE MonthOf(d - MonthDays[m], m + 1)

\* date.isoformat(), for the days of 2026
IsoFormat(d) ==
    LET md == MonthOf(d, 1) IN "2026-" \o Pad2(md[1]) \o "-" \o Pad2(md[2])

RECURSIVE SumSeq(_)
SumSeq(s) == IF s = << >> THEN 0 ELSE Head(s) + SumSeq(Tail(s))

TakeOneMore(s, n) == SubSeq(s, 1, IF Len(s) < n + 1 THEN Len(s) ELSE n + 1)

\* s[:n]
Take(s, n) == SubSeq(s, 1, IF Len(s) < n THEN Len(s) ELSE n)

\* the sequences over S of length at most n
SeqsUpTo(S, n) == UNION { [1..k -> S] : k \in 0..n }

-----------------------------------------------------------------------------
(* collect_daily_metrics *)

ActivityMetrics(d) ==
    [ date |-> IsoFormat(d),
      upstream_issues_opened |-> 0, upstream_issues_closed |-> 0,
      upstream_prs_opened |-> 0, upstream_prs_merged |-> 0,
      upstream_releases |-> 0,
      downstream_tasks_created |-> 0, downstream_tasks_completed |-> 0,
      sync_activities |-> 0 ]

\* x.created_at.date() == date
CreatedOn(x, d) ==
    LET r == DateAttr(x.created_at) IN IF r.raised THEN r ELSE Val(r.val = d)

\* issue.updated_at.date() == date
UpdatedOn(x, d) ==
    LET r == DateAttr(x.updated_at) IN IF r.raised THEN r ELSE Val(r.val = d)

\* issue.closed_at and issue.closed_at.date() == date
ClosedOn(x, d) ==
    IF x.closed_at = NoneTime THEN Val(FALSE)
    ELSE LET r == DateAttr(x.closed_at) IN IF r.raised THEN r ELSE Val(r.val = d)

\* pr.merged and pr.merged_at.date() == date
MergedOn(x, d) ==
    IF ~x.merged THEN Val(FALSE)
    ELSE LET r == DateAttr(x.merged_at) IN IF r.raised THEN r ELSE Val(r.val = d)

PublishedOnUnguarded(x, d) ==
    LET r == DateAttr(x.published_at) IN IF r.raised THEN r ELSE Val(r.val = d)

\* rel.published_at and rel.published_at.date() == date
PublishedOn(x, d) ==
    IF x.published_at = NoneTime THEN Val(FALSE)
    ELSE LET r == DateAttr(x.published_at) IN IF r.raised THEN r ELSE Val(r.val = d)

\* the condition of the list comprehension over field f, for item x and date d
OnDate(f, x, d) ==
    CASE f = "created_at" -> CreatedOn(x, d)
      [] f = "closed_at" -> ClosedOn(x, d)
      [] f = "merged_at" -> MergedOn(x, d)
      [] f = "published_at" -> PublishedOn(x, d)
      [] f = "updated_at" -> UpdatedOn(x, d)

\* len([x for x in s if <condition on f>]): raises when a condition raises
CountWhere(s, f, d) ==
    IF \E k \in 1..Len(s) : OnDate(f, s[k], d).raised
    THEN Raise("AttributeError")
    ELSE Val(Cardinality({ k \in 1..Len(s) : OnDate(f, s[k], d).val }))

\* downstream_repo.get_issues(state="all", labels=[label])
WithLabel(s, label) == SelectSeq(s, LAMBDA x : label \in x.labels)

sync_labels == << "upstream-sync", "upstream-pr", "upstream-release" >>

collect_daily_metrics(d, issues, prs, releases, downstream) ==
    LET tasks == WithLabel(downstream, "upstream-sync")
        counts == << CountWhere(issues, "created_at", d),
                     CountWhere(issues, "closed_at", d),
                     CountWhere(prs, "created_at", d),
                     CountWhere(prs, "merged_at", d),
                     CountWhere(releases, "published_at", d),
                     CountWhere(tasks, "created_at", d),
                     CountWhere(tasks, "closed_at", d),
                     CountWhere(WithLabel(downstream, sync_labels[1]), "updated_at", d),
                     CountWhere(WithLabel(downstream, sync_labels[2]), "updated_at", d),
                     CountWhere(WithLabel(downstream, sync_labels[3]), "updated_at", d) >>
    IN  IF \E k \in 1..Len(counts) : counts[k].raised
        THEN Raise("AttributeError")
        ELSE Val([ ActivityMetrics(d) EXCEPT
                     !.upstream_issues_opened = counts[1].val,
                     !.upstream_issues_closed = counts[2].val,
                     !.upstream_prs_opened = counts[3].val,
                     !.upstream_prs_merged = counts[4].val,
                     !.upstream_releases = counts[5].val,
                     !.downstream_tasks_created = counts[6].val,
                     !.downstream_tasks_completed = counts[7].val,
                     !.sync_activities =
                         counts[8].val + counts[9].val + counts[10].val ])

-----------------------------------------------------------------------------
(* Text *)

UpperCase == << "A", "B", "C", "D", "E", "F", "G", "H", "I", "J", "K", "L", "M",
                "N", "O", "P", "Q", "R", "S", "T", "U", "V", "W", "X", "Y", "Z" >>
LowerCase == << "a", "b", "c", "d", "e", "f", "g", "h", "i", "j", "k", "l", "m",
                "n", "o", "p", "q", "r", "s", "t", "u", "v", "w", "x", "y", "z" >>

LowerChar(c) ==
    IF \E k \in 1..Len(UpperCase) : UpperCase[k] = c
    THEN LowerCase[CHOOSE k \in 1..Len(UpperCase) : UpperCase[k] = c]
    ELSE c

\* str.lower(): AttributeError on None
Lower(s) ==
    IF s = NoneText THEN Raise("AttributeError")
    ELSE Val([k \in 1..Len(s) |-> LowerChar(s[k])])

\* keyword in text
Contains(text, kw) ==
    \E k \in 1..(Len(text) - Len(kw) + 1) : SubSeq(text, k, k + Len(kw) - 1) = kw

\* any(keyword in text for keyword in kws)
AnyIn(kws, text) == \E k \in 1..Len(kws) : Contains(text, kws[k])

\* x.body.lower() if x.body else ""
BodyText(x) ==
    IF x.body = NoneText \/ x.body = << >> THEN Val(<< >>) ELSE Lower(x.body)

\* f"{title} {body}" of the lower-cased title and body
TextOf(x) ==
    LET t == Lower(x.title)
        b == BodyText(x)
    IN  IF t.raised THEN t ELSE IF b.raised THEN b
        ELSE Val(t.val \o << " " >> \o b.val)

IssueBugKw ==
    << << "b", "u", "g" >>,
       << "e", "r", "r", "o", "r" >>,
       << "c", "r", "a", "s", "h" >>,
       << "f", "i", "x" >> >>
IssueFeatureKw ==
    << << "f", "e", "a", "t", "u", "r", "e" >>,
       << "e", "n", "h", "a", "n", "c", "e", "m", "e", "n", "t" >>,
       << "a", "d", "d" >> >>
IssueDocKw ==
    << << "d", "o", "c", "s" >>,
       << "d", "o", "c", "u", "m", "e", "n", "t", "a", "t", "i", "o", "n" >>,
       << "r", "e", "a", "d", "m", "e" >> >>
IssuePerfKw ==
    << << "p", "e", "r", "f", "o", "r", "m", "a", "n", "c", "e" >>,
       << "o", "p", "t", "i", "m", "i", "z", "a", "t", "i", "o", "n" >>,
       << "s", "p", "e", "e", "d" >> >>
PrFixKw ==
    << << "f", "i", "x" >>,
       << "b", "u", "g", "f", "i", "x" >> >>
PrFeatureKw ==
    << << "f", "e", "a", "t" >>,
       << "f", "e", "a", "t", "u", "r", "e" >> >>
PrRefactorKw ==
    << << "r", "e", "f", "a", "c", "t", "o", "r" >>,
       << "c", "l", "e", "a", "n", "u", "p" >> >>
PrDocKw ==
    << << "d", "o", "c", "s" >>,
       << "d", "o", "c", "u", "m", "e", "n", "t", "a", "t", "i", "o", "n" >> >>

IssueCategoryFeatureFirst(text) ==
    IF AnyIn(IssueFeatureKw, text) THEN "feature"
    ELSE IF AnyIn(IssueBugKw, text) THEN "bug"
    ELSE IF AnyIn(IssueDocKw, text) THEN "documentation"
    ELSE IF AnyIn(IssuePerfKw, text) THEN "performance"
    ELSE "other"

\* the if/elif chain over the issue's text
IssueCategory(text) ==
    IF AnyIn(IssueBugKw, text) THEN "bug"
    ELSE IF AnyIn(IssueFeatureKw, text) THEN "feature"
    ELSE IF AnyIn(IssueDocKw, text) THEN "documentation"
    ELSE IF AnyIn(IssuePerfKw, text) THEN "performance"
    ELSE "other"

\* the if/elif chain over the pull request's text
PrType(text) ==
    IF AnyIn(PrFixKw, text) THEN "fix"
    ELSE IF AnyIn(PrFeatureKw, text) THEN "feature"
    ELSE IF AnyIn(PrRefactorKw, text) THEN "refactor"
    ELSE IF AnyIn(PrDocKw, text) THEN "documentation"
    ELSE "other"

-----------------------------------------------------------------------------
(* dict *)

HasKey(d, k) == \E n \in 1..Len(d) : d[n].k = k

\* d.get(k, 0)
Get0(d, k) == IF HasKey(d, k) THEN d[CHOOSE n \in 1..Len(d) : d[n].k = k].v ELSE 0

\* the dict d after d[k] = d.get(k, 0) + 1 for each k of keys, in order: a key
\* of d keeps its place, the new keys follow in the order they first appear,
\* and each key has gained 1 for each of its occurrences in keys
Tally(d, keys) ==
    LET Occurrences(k) == Cardinality({ j \in 1..Len(keys) : keys[j] = k })
        IsNew(j) == /\ ~HasKey(d, keys[j])
                    /\ \A n \in 1..(j - 1) : keys[n] # keys[j]
        firsts == SelectSeq([j \in 1..Len(keys) |-> j], IsNew)
    IN  [n \in 1..Len(d) |-> [k |-> d[n].k, v |-> d[n].v + Occurrences(d[n].k)]]
        \o [m \in 1..Len(firsts) |->
               [k |-> keys[firsts[m]], v |-> Occurrences(keys[firsts[m]])]]

RECURSIVE InsertDescUnstable(_, _)
InsertDescUnstable(s, e) ==
    IF s = << >> THEN << e >>
    ELSE IF Head(s).v > e.v THEN << Head(s) >> \o InsertDescUnstable(Tail(s), e)
    ELSE << e >> \o s

RECURSIVE InsertDesc(_, _)
\* e placed after every item whose count is at least e's
InsertDesc(s, e) ==
    IF s = << >> THEN << e >>
    ELSE IF Head(s).v >= e.v THEN << Head(s) >> \o InsertDesc(Tail(s), e)
    ELSE << e >> \o s

RECURSIVE SortedDescFrom(_, _)
SortedDescFrom(acc, s) ==
    IF s = << >> THEN acc ELSE SortedDescFrom(InsertDesc(acc, Head(s)), Tail(s))

\* sorted(d.items(), key=lambda x: x[1], reverse=True): stable
SortedDesc(d) == SortedDescFrom(<< >>, d)

\* dict(sorted(...)[:10])
TopContributors(d) == Take(SortedDesc(d), TopN)

-----------------------------------------------------------------------------
(* analyze_upstream_trends *)

\* a release frequency n / q as the fraction [num, den]
Frac(n, d) == [num |-> n, den |-> d]

\* len(releases) / max(days_diff / 30, 1) of releases[0] and releases[-1]
ReleaseFrequency(releases) ==
    IF Len(releases) > 1
    THEN LET latest == releases[1].published_at
             oldest == releases[Len(releases)].published_at
         IN  IF latest = NoneTime \/ oldest = NoneTime THEN Raise("TypeError")
             ELSE LET days_diff == (latest - oldest) \div TicksPerDay
                  IN  IF days_diff > MonthLen
                      THEN Val(Frac(Len(releases) * MonthLen, days_diff))
                      ELSE Val(Frac(Len(releases), 1))
    ELSE Val(Frac(0, 1))

\* the categories of the items of s, in order; raises when a text raises
Categories(s, kind) ==
    IF \E k \in 1..Len(s) : TextOf(s[k]).raised
    THEN Raise("AttributeError")
    ELSE Val([k \in 1..Len(s) |->
                 IF kind = "issue" THEN IssueCategory(TextOf(s[k]).val)
                 ELSE PrType(TextOf(s[k]).val)])

Logins(s) == [k \in 1..Len(s) |-> s[k].login]

analyze_upstream_trends(issues, prs, releases) ==
    LET recent_issues == Take(issues, ScanLimit)
        recent_prs == Take(prs, ScanLimit)
        ic == Categories(recent_issues, "issue")
        pt == Categories(recent_prs, "pr")
        rf == ReleaseFrequency(releases)
    IN  IF ic.raised THEN ic ELSE IF pt.raised THEN pt ELSE IF rf.raised THEN rf
        ELSE Val([ issue_categories |-> Tally(<< >>, ic.val),
                   pr_types |-> Tally(<< >>, pt.val),
                   release_frequency |-> rf.val,
                   top_contributors |->
                       TopContributors(
                           Tally(<< >>, Logins(recent_issues) \o Logins(recent_prs))),
                   complexity_trends |-> << >> ])

-----------------------------------------------------------------------------
(* generate_dashboard_data: the summary *)

\* round(num / den, 2) in hundredths, for den > 0: the nearest hundredth,
\* an exact tie going to the even one
RoundHundredths(num, den) ==
    LET q == (num * 100) \div den
        r == (num * 100) % den
    IN  IF 2 * r < den THEN q
        ELSE IF 2 * r > den THEN q + 1
        ELSE IF q % 2 = 0 THEN q ELSE q + 1

SyncEfficiencyTruncated(tasks, issues) ==
    IF issues > 0 THEN (tasks * 10000) \div issues ELSE 0

\* round((tasks / issues) * 100 if issues > 0 else 0, 2), in hundredths
SyncEfficiency(tasks, issues) ==
    IF issues > 0 THEN RoundHundredths(tasks * 100, issues) ELSE 0

Column(ms, f) == [k \in 1..Len(ms) |-> ms[k][f]]

TotalOfClosed(ms, f) ==
    SumSeq(Column(ms, IF f = "upstream_issues_opened" THEN "upstream_issues_closed" ELSE f))

\* sum(m.<f> for m in metrics_data)
TotalOf(ms, f) == SumSeq(Column(ms, f))

\* datetime.isoformat()
DatetimeIso(dt) ==
    IsoFormat(dt \div TicksPerDay) \o "T" \o Pad2(dt % TicksPerDay) \o ":00:00"

RECURSIVE MaxOf(_)
MaxOf(s) ==
    IF Len(s) = 1 THEN s[1]
    ELSE LET m == MaxOf(Tail(s)) IN IF s[1] >= m THEN s[1] ELSE m

\* the try block of get_last_sync_time
LatestSync(downstream) ==
    LET sync_issues == WithLabel(downstream, "upstream-sync")
    IN  IF sync_issues # << >>
        THEN DatetimeIso(MaxOf([k \in 1..Len(sync_issues) |-> sync_issues[k].updated_at]))
        ELSE "No recent syncs found"

get_last_sync_time_unguarded(downstream, fault) ==
    IF fault THEN Raise("TransportError") ELSE Val(LatestSync(downstream))

\* get_last_sync_time: every error is caught here and "Unknown" returned
get_last_sync_time(downstream, fault) ==
    IF fault THEN Val("Unknown") ELSE Val(LatestSync(downstream))

DataPeriod(t) ==
    "Last 30 days (" \o IsoFormat(t - (WindowDays - 1)) \o " to " \o IsoFormat(t) \o ")"

\* the dict built at the end of generate_dashboard_data
DashboardData(ms, tr, t, last_sync) ==
    LET total_upstream_issues == TotalOf(ms, "upstream_issues_opened")
        total_upstream_prs == TotalOf(ms, "upstream_prs_opened")
        total_downstream_tasks == TotalOf(ms, "downstream_tasks_created")
    IN  [ summary |->
            [ total_upstream_issues |-> total_upstream_issues,
              total_upstream_prs |-> total_upstream_prs,
              total_downstream_tasks |-> total_downstream_tasks,
              sync_efficiency |->
                  SyncEfficiency(total_downstream_tasks, total_upstream_issues),
              data_period |-> DataPeriod(t) ],
          trends |-> tr,
          daily_metrics |-> ms,
          current_status |->
            [ last_sync |-> last_sync,
              active_monitoring |-> TRUE,
              upstream_repo_status |-> "Active",
              downstream_repo_status |-> "Active" ] ]

-----------------------------------------------------------------------------
(* create_visualizations *)

ActivityPng == "/tmp/activity_trends.png"
CategoriesPng == "/tmp/issue_categories.png"
ContributorsPng == "/tmp/top_contributors.png"

\* where a plotting call may fail
RenderFaults == { "none", "style", "pie", "bar" }

\* [raised, exc, written: the files saved before returning or raising, val]
create_visualizations(data, fault) ==
    IF data.daily_metrics = << >>
    THEN [raised |-> TRUE, exc |-> "KeyError: 'date'", written |-> {}]
    ELSE IF fault = "style"
    THEN [raised |-> TRUE, exc |-> "RenderError", written |-> {}]
    ELSE LET v1 == << [k |-> "activity_trends", v |-> ActivityPng] >>
             w1 == { ActivityPng }
             pie == data.trends.issue_categories # << >>
             bar == data.trends.top_contributors # << >>
         IN  IF pie /\ fault = "pie"
             THEN [raised |-> TRUE, exc |-> "RenderError", written |-> w1]
             ELSE LET v2 == IF pie
                            THEN Append(v1, [k |-> "issue_categories", v |-> CategoriesPng])
                            ELSE v1
                      w2 == IF pie THEN w1 \cup { CategoriesPng } ELSE w1
                  IN  IF bar /\ fault = "bar"
                      THEN [raised |-> TRUE, exc |-> "RenderError", written |-> w2]
                      ELSE [ raised |-> FALSE,
                             written |-> IF bar THEN w2 \cup { ContributorsPng } ELSE w2,
                             val |-> IF bar
                                     THEN Append(v2, [k |-> "top_contributors",
                                                      v |-> ContributorsPng])
                                     ELSE v2 ]

-----------------------------------------------------------------------------
(* generate_html_report *)

\* the template with the braces of its CSS rules doubled ({{ and }}), the rules
\* abridged to one: str.format accepts it
html_template_escaped ==
    << "text 1: <!DOCTYPE html> <htm ... /title> <style> body",
       "{", "{", "text: font-family: Segoe UI ... (the CSS rules)", "}", "}",
       "text 2: ...", "{", "timestamp", "}",
       "text 3: ...", "{", "data_period", "}",
       "text 4: ...", "{", "total_upstream_issues", "}",
       "text 5: ...", "{", "total_upstream_prs", "}",
       "text 6: ...", "{", "total_downstream_tasks", "}",
       "text 7: ...", "{", "sync_efficiency", "}",
       "text 8: ...", "{", "activity_trends_img", "}",
       "text 9: ...", "{", "issue_categories_img", "}",
       "text 10: ...", "{", "top_contributors_img", "}",
       "text 11: ...", "{", "last_sync", "}",
       "text 12: ...", "{", "upstream_status", "}",
       "text 13: ...", "{", "downstream_status", "}",
       "text 14: </span> </div> </div ... div> </body> </html>" >>

\* the template as the pieces str.format tells apart: a brace, the name of a
\* replacement field, the colon before its format spec, the spec, other text
\* (long text is abridged and a field name is written without the white space
\* before it: the first CSS rule's field name is really "\n            font-family")
html_template ==
    << "text 1: <!DOCTYPE html> <htm ... /title> <style> body",
       "{",
       "font-family",
       ":",
       "spec: 'Segoe UI', Tahoma, Geneva, Ve",
       "}",
       "text 2: .container",
       "{",
       "max-width",
       ":",
       "spec: 1200px; margin: 0 auto; backgr",
       "}",
       "text 3: .header",
       "{",
       "text-align",
       ":",
       "spec: center; margin-bottom: 40px; p",
       "}",
       "text 4: .header h1",
       "{",
       "color",
       ":",
       "spec: #2c3e50; margin: 0; font-size:",
       "}",
       "text 5: .header p",
       "{",
       "color",
       ":",
       "spec: #7f8c8d; margin: 10px 0 0 0; f",
       "}",
       "text 6: .summary-grid",
       "{",
       "display",
       ":",
       "spec: grid; grid-template-columns: r",
       "}",
       "text 7: .summary-card",
       "{",
       "background",
       ":",
       "spec: linear-gradient(135deg, #667ee",
       "}",
       "text 8: .summary-card h3",
       "{",
       "margin",
       ":",
       "spec: 0 0 10px 0; font-size: 1.1em; ",
       "}",
       "text 9: .summary-card .number",
       "{",
       "font-size",
       ":",
       "spec: 2.5em; font-weight: bold; marg",
       "}",
       "text 10: .section",
       "{",
       "margin-bottom",
       ":",
       "spec: 40px;",
       "}",
       "text 11: .section h2",
       "{",
       "color",
       ":",
       "spec: #2c3e50; border-bottom: 2px so",
       "}",
       "text 12: .chart-container",
       "{",
       "text-align",
       ":",
       "spec: center; margin: 20px 0;",
       "}",
       "text 13: .chart-container img",
       "{",
       "max-width",
       ":",
       "spec: 100%; height: auto; border-rad",
       "}",
       "text 14: .status-grid",
       "{",
       "display",
       ":",
       "spec: grid; grid-template-columns: r",
       "}",
       "text 15: .status-item",
       "{",
       "background-color",
       ":",
       "spec: #f8f9fa; padding: 15px; border",
       "}",
       "text 16: .status-item.warning",
       "{",
       "border-left-color",
       ":",
       "spec: #ffc107;",
       "}",
       "text 17: .status-item.error",
       "{",
       "border-left-color",
       ":",
       "spec: #dc3545;",
       "}",
       "text 18: .status-item strong",
       "{",
       "display",
       ":",
       "spec: block; color: #495057; margin-",
       "}",
       "text 19: .footer",
       "{",
       "text-align",
       ":",
       "spec: center; margin-top: 40px; padd",
       "}",
       "text 20: .refresh-info",
       "{",
       "background-color",
       ":",
       "spec: #e8f5e8; padding: 15px; border",
       "}",
       "text 21: </style> </head> <bo ... st Updated:</strong>",
       "{",
       "timestamp",
       "}",
       "text 22: | <strong> Data Period:</strong>",
       "{",
       "data_period",
       "}",
       "text 23: </div> <div class=su ... > <div class=number>",
       "{",
       "total_upstream_issues",
       "}",
       "text 24: </div> </div> <div c ... > <div class=number>",
       "{",
       "total_upstream_prs",
       "}",
       "text 25: </div> </div> <div c ... > <div class=number>",
       "{",
       "total_downstream_tasks",
       "}",
       "text 26: </div> </div> <div c ... > <div class=number>",
       "{",
       "sync_efficiency",
       "}",
       "text 27: %</div> </div> </div ... ta:image/png;base64,",
       "{",
       "activity_trends_img",
       "}",
       "text 28: alt=Activity Trends> ... ta:image/png;base64,",
       "{",
       "issue_categories_img",
       "}",
       "text 29: alt=Issue Categories ... ta:image/png;base64,",
       "{",
       "top_contributors_img",
       "}",
       "text 30: alt=Top Contributors ... g>Last Sync</strong>",
       "{",
       "last_sync",
       "}",
       "text 31: </div> <div class=st ... yle=color: #28a745;>",
       "{",
       "upstream_status",
       "}",
       "text 32: </span> </div> <div  ... yle=color: #28a745;>",
       "{",
       "downstream_status",
       "}",
       "text 33: </span> </div> </div ... div> </body> </html>" >>

\* the index of the first "}" of tpl at or after n, 0 when there is none
ClosingBrace(tpl, n) ==
    IF \E k \in n..Len(tpl) : tpl[k] = "}"
    THEN CHOOSE k \in n..Len(tpl) : tpl[k] = "}" /\ \A j \in n..(k - 1) : tpl[j] # "}"
    ELSE 0

RECURSIVE Format(_, _, _)
\* str.format(**kw) from the n-th piece on: "{{" and "}}" are literal braces, a
\* lone "}" is a ValueError, "{name...}" is kw[name] and a KeyError without it
Format(tpl, kw, n) ==
    IF n > Len(tpl) THEN Val(<< >>)
    ELSE IF tpl[n] = "{"
    THEN IF n = Len(tpl) THEN Raise("ValueError")
         ELSE IF tpl[n + 1] = "{"
         THEN LET r == Format(tpl, kw, n + 2)
              IN  IF r.raised THEN r ELSE Val(<< "{" >> \o r.val)
         ELSE LET close == ClosingBrace(tpl, n + 1)
                  name == IF close = n + 1 THEN "" ELSE tpl[n + 1]
              IN  IF close = 0 THEN Raise("ValueError")
                  ELSE IF ~HasKey(kw, name) THEN Raise("KeyError")
                  ELSE LET r == Format(tpl, kw, close + 1)
                       IN  IF r.raised THEN r
                           ELSE Val(<< kw[CHOOSE j \in 1..Len(kw) : kw[j].k = name].v >>
                                    \o r.val)
    ELSE IF tpl[n] = "}"
    THEN IF n < Len(tpl) /\ tpl[n + 1] = "}"
         THEN LET r == Format(tpl, kw, n + 2)
              IN  IF r.raised THEN r ELSE Val(<< "}" >> \o r.val)
         ELSE Raise("ValueError")
    ELSE LET r == Format(tpl, kw, n + 1)
         IN  IF r.raised THEN r ELSE Val(<< tpl[n] >> \o r.val)

\* the bytes savefig wrote to path
PngBytes(path) == "PNG(" \o path \o ")"

\* base64.b64encode(bytes).decode()
B64(bytes) == "b64:" \o bytes

\* the image string of chart name: "" when the chart was not made
ImageOf(vis, name) ==
    IF HasKey(vis, name)
    THEN B64(PngBytes(vis[CHOOSE j \in 1..Len(vis) : vis[j].k = name].v))
    ELSE ""

\* the hundredths h as Python prints the float: 33.33, 50.0, 0 for the int 0
PercentStr(h, isInt) ==
    IF isInt THEN ToString(h)
    ELSE ToString(h \div 100) \o "." \o
         (IF h % 100 = 0 THEN "0"
          ELSE IF h % 10 = 0 THEN ToString((h % 100) \div 10)
          ELSE Pad2(h % 100))

\* the keyword arguments of html_template.format
FormatArgs(data, vis, now) ==
    << [k |-> "timestamp", v |-> now],
       [k |-> "data_period", v |-> data.summary.data_period],
       [k |-> "total_upstream_issues", v |-> ToString(data.summary.total_upstream_issues)],
       [k |-> "total_upstream_prs", v |-> ToString(data.summary.total_upstream_prs)],
       [k |-> "total_downstream_tasks", v |-> ToString(data.summary.total_downstream_tasks)],
       [k |-> "sync_efficiency",
        v |-> PercentStr(data.summary.sync_efficiency,
                         data.summary.total_upstream_issues = 0)],
       [k |-> "activity_trends_img", v |-> ImageOf(vis, "activity_trends")],
       [k |-> "issue_categories_img", v |-> ImageOf(vis, "issue_categories")],
       [k |-> "top_contributors_img", v |-> ImageOf(vis, "top_contributors")],
       [k |-> "last_sync", v |-> data.current_status.last_sync],
       [k |-> "upstream_status", v |-> data.current_status.upstream_repo_status],
       [k |-> "downstream_status", v |-> data.current_status.downstream_repo_status] >>

generate_html_report(data, vis, now) ==
    Format(html_template, FormatArgs(data, vis, now), 1)

-----------------------------------------------------------------------------
(* The remote repositories a run of main() may meet *)

T_Bug == << "B", "u", "g" >>
T_AddFeature == << "A", "d", "d", " ", "F", "E", "A", "T", "U", "R", "E" >>
T_Hello == << "h", "e", "l", "l", "o" >>
T_FixDocs == << "F", "i", "x", " ", "d", "o", "c", "s" >>
B_Plain == << "t", "h", "a", "n", "k", "s" >>

Issue(created, closed, updated, title, body, login, labels) ==
    [ created_at |-> created, closed_at |-> closed, updated_at |-> updated,
      title |-> title, body |-> body, login |-> login, labels |-> labels ]

\* merged is True exactly when merged_at is set
Pull(created, merged_at, title, body, login) ==
    [ created_at |-> created, merged |-> merged_at # NoneTime, merged_at |-> merged_at,
      title |-> title, body |-> body, login |-> login ]

Release(published) == [ published_at |-> published ]

\* sort="created", direction="desc"
NewestFirst(s) == \A k \in 1..(Len(s) - 1) : s[k].created_at >= s[k + 1].created_at

MainIssues(t) ==
    { Issue(At(t, 1), NoneTime, At(t, 1), T_Bug, NoneText, "alice", {}),
      Issue(At(t - 1, 0), At(t, 0), At(t, 0), T_AddFeature, B_Plain, "bob", {}),
      Issue(At(t - WindowDays, 0), At(t - (WindowDays - 1), 1),
            At(t - (WindowDays - 1), 1), T_Hello, << >>, "alice", {}) }

MainPullLists(t) ==
    { << >>,
      << Pull(At(t, 0), NoneTime, T_Hello, NoneText, "bob"),
         Pull(At(t - 1, 1), At(t, 0), T_FixDocs, << >>, "carol") >> }

MainReleaseLists(t) ==
    { << >>, << Release(At(t, 1)), Release(NoneTime), Release(At(t - 1, 0)) >> }

MainTasks(t) ==
    { Issue(At(t, 0), NoneTime, At(t, 1), T_Hello, NoneText, "dave",
            { "upstream-sync" }),
      Issue(At(t - 2, 0), At(t - 1, 1), At(t - 1, 1), T_Hello, NoneText, "dave",
            { "upstream-sync", "upstream-pr" }) }

\* the day offsets on which the remote API may be down
FlakyDays == { 0, WindowDays - 1 }

OutageSets == SUBSET FlakyDays \cup { 0..(WindowDays - 1) }

NoToken == "<None>"
Tokens == { NoToken, "", "ghp_token" }

-----------------------------------------------------------------------------
(* main *)

StageNames ==
    << "FETCHING_METRICS", "ANALYZING_TRENDS", "RENDERING_CHARTS",
       "COMPOSING_REPORT", "WRITING_OUTPUT" >>

TokenMissingNoneOnly(tok) == tok = NoToken

\* not GITHUB_TOKEN
TokenMissing(tok) == tok = NoToken \/ tok = ""

ExceptExitsZero(e) ==
    [ pc |-> "FAILED", error |-> e, printed |-> "error", exit_code |-> 0 ]

\* except Exception as e: print, sys.exit(1)
Except(e) ==
    [ pc |-> "FAILED", error |-> e, printed |-> "error", exit_code |-> 1 ]

\* the run leaves the try block with exception e
Fail(e) ==
    LET h == Except(e)
    IN  /\ pc' = h.pc
        /\ error' = h.error
        /\ printed' = h.printed
        /\ exit_code' = h.exit_code

\* an exception raised in origin and caught by the except clause of handler
Caught(origin, handler) == [ origin |-> origin, handler |-> handler ]

\* an exception raised in origin reaches the except clause of main
FailFrom(origin, e) ==
    /\ Fail(e)
    /\ caught' = caught \cup { Caught(origin, "main") }

Repos == << upstream_issues, upstream_prs, upstream_releases, downstream_issues >>
Env == << GITHUB_TOKEN, today, outage, Repos >>

RequestedDateFromYesterday(t, k) == t - (k + 1)

\* date = today - timedelta(days=i)
RequestedDate(t, k) == t - k

\* if not GITHUB_TOKEN: print, sys.exit(1)
CheckCredential ==
    /\ pc = "INIT"
    /\ IF TokenMissing(GITHUB_TOKEN)
       THEN /\ pc' = "NO_TOKEN"
            /\ printed' = "token_error"
            /\ exit_code' = 1
       ELSE /\ pc' = "START"
            /\ UNCHANGED << printed, exit_code >>
    /\ UNCHANGED << Env, stages, remote_called, files, i, date, metrics_data, skipped,
                    trends, dashboard_data, visualizations, html_report, error,
                    requested, caught >>

\* monitor = UpstreamMonitor(GITHUB_TOKEN): Github(), get_repo twice
NewMonitor ==
    /\ pc = "START"
    /\ remote_called' = TRUE
    /\ \E fault \in BOOLEAN :
         IF fault
         THEN FailFrom("UpstreamMonitor", "TransportError") /\ UNCHANGED << stages, i >>
         ELSE /\ pc' = "FETCHING_METRICS"
              /\ stages' = Append(stages, "FETCHING_METRICS")
              /\ i' = 0
              /\ UNCHANGED << error, printed, exit_code, caught >>
    /\ UNCHANGED << Env, files, date, metrics_data, skipped, trends, dashboard_data,
                    visualizations, html_report, requested >>

\* one pass of the loop of generate_dashboard_data; the last one leaves it
CollectDay ==
    /\ pc = "FETCHING_METRICS"
    /\ i < WindowDays
    /\ date' = RequestedDate(today, i)
    /\ requested' = Append(requested, date')
    /\ remote_called' = TRUE
    /\ LET r == IF i \in outage THEN Raise("TransportError")
                ELSE collect_daily_metrics(date', upstream_issues, upstream_prs,
                                           upstream_releases, downstream_issues)
       IN  IF r.raised
           THEN /\ skipped' = skipped \cup { i }
                /\ caught' = caught \cup
                       { Caught("collect_daily_metrics", "generate_dashboard_data") }
                /\ UNCHANGED metrics_data
           ELSE metrics_data' = Append(metrics_data, r.val) /\ UNCHANGED << skipped, caught >>
    /\ i' = i + 1
    /\ IF i + 1 = WindowDays
       THEN /\ pc' = "ANALYZING_TRENDS"
            /\ stages' = Append(stages, "ANALYZING_TRENDS")
       ELSE UNCHANGED << pc, stages >>
    /\ UNCHANGED << Env, exit_code, printed, files, trends, dashboard_data,
                    visualizations, html_report, error >>

\* trends = self.analyze_upstream_trends(30)
AnalyzeTrends ==
    /\ pc = "ANALYZING_TRENDS"
    /\ \E fault \in BOOLEAN :
         LET r == IF fault THEN Raise("TransportError")
                  ELSE analyze_upstream_trends(upstream_issues, upstream_prs,
                                               upstream_releases)
         IN  IF r.raised
             THEN FailFrom("analyze_upstream_trends", r.exc) /\ UNCHANGED trends
             ELSE /\ trends' = r.val
                  /\ pc' = "SUMMARIZING"
                  /\ UNCHANGED << error, printed, exit_code, caught >>
    /\ UNCHANGED << Env, stages, remote_called, files, i, date, metrics_data, skipped,
                    dashboard_data, visualizations, html_report, requested >>

\* the totals, the dict and get_last_sync_time; generate_dashboard_data returns
Summarize ==
    /\ pc = "SUMMARIZING"
    /\ \E fault \in BOOLEAN :
         LET r == get_last_sync_time(downstream_issues, fault)
         IN  IF r.raised
             THEN /\ FailFrom("get_last_sync_time", r.exc)
                  /\ UNCHANGED << dashboard_data, stages >>
             ELSE /\ dashboard_data' = DashboardData(metrics_data, trends, today, r.val)
                  /\ caught' = IF fault
                               THEN caught \cup
                                      { Caught("get_last_sync_time", "get_last_sync_time") }
                               ELSE caught
                  /\ pc' = "RENDERING_CHARTS"
                  /\ stages' = Append(stages, "RENDERING_CHARTS")
                  /\ UNCHANGED << error, printed, exit_code >>
    /\ UNCHANGED << Env, remote_called, files, i, date, metrics_data, skipped, trends,
                    visualizations, html_report, requested >>

\* visualizations = monitor.create_visualizations(dashboard_data)
RenderCharts ==
    /\ pc = "RENDERING_CHARTS"
    /\ \E fault \in RenderFaults :
         LET r == create_visualizations(dashboard_data, fault)
         IN  /\ files' = files \cup r.written
             /\ IF r.raised
                THEN /\ FailFrom("create_visualizations", r.exc)
                     /\ UNCHANGED << visualizations, stages >>
                ELSE /\ visualizations' = r.val
                     /\ pc' = "COMPOSING_REPORT"
                     /\ stages' = Append(stages, "COMPOSING_REPORT")
                     /\ UNCHANGED << error, printed, exit_code, caught >>
    /\ UNCHANGED << Env, remote_called, i, date, metrics_data, skipped, trends,
                    dashboard_data, html_report, requested >>

Now(t) == IsoFormat(t) \o " 12:00:00 UTC"

JsonFile == "/tmp/dashboard_data_<timestamp>.json"
HtmlFile == "/tmp/dashboard_<timestamp>.html"

WriteFaults == { "none", "json", "html" }

\* the two with-open blocks and the summary at the end of main's try block
SaveOutputs(fault) ==
    IF fault = "json"
    THEN FailFrom("main", "OSError") /\ UNCHANGED files
    ELSE IF fault = "html"
    THEN FailFrom("main", "OSError") /\ files' = files \cup { JsonFile }
    ELSE /\ files' = files \cup { JsonFile, HtmlFile }
         /\ pc' = "DONE"
         /\ printed' = "summary"
         /\ exit_code' = 0
         /\ UNCHANGED << error, caught >>

\* html_report = monitor.generate_html_report(dashboard_data, visualizations),
\* and, when it returns, the rest of main's try block
ComposeReport ==
    /\ pc = "COMPOSING_REPORT"
    /\ LET r == generate_html_report(dashboard_data, visualizations, Now(today))
       IN  IF r.raised
           THEN /\ FailFrom("generate_html_report", r.exc)
                /\ UNCHANGED << html_report, stages, files >>
           ELSE /\ html_report' = r.val
                /\ stages' = Append(stages, "WRITING_OUTPUT")
                /\ \E fault \in WriteFaults : SaveOutputs(fault)
    /\ UNCHANGED << Env, remote_called, i, date, metrics_data, skipped, trends,
                    dashboard_data, visualizations, requested >>

Init ==
    /\ GITHUB_TOKEN \in Tokens
    /\ today = Today0
    /\ outage \in OutageSets
    /\ upstream_issues \in { s \in SeqsUpTo(MainIssues(Today0), MaxItems) : NewestFirst(s) }
    /\ upstream_prs \in MainPullLists(Today0)
    /\ upstream_releases \in MainReleaseLists(Today0)
    \* a repository with neither pull requests nor releases, or with both
    /\ upstream_prs = << >> <=> upstream_releases = << >>
    /\ downstream_issues \in
           { s \in SeqsUpTo(MainTasks(Today0), MaxItems) : NewestFirst(s) }
    /\ pc = "INIT"
    /\ exit_code = 0 - 1
    /\ printed = ""
    /\ stages = << >>
    /\ remote_called = FALSE
    /\ files = {}
    /\ i = 0
    /\ date = Today0
    /\ metrics_data = << >>
    /\ skipped = {}
    /\ trends = Unset
    /\ dashboard_data = Unset
    /\ visualizations = << >>
    /\ html_report = << >>
    /\ error = "none"
    /\ requested = << >>
    /\ caught = {}

Next ==
    \/ CheckCredential
    \/ NewMonitor
    \/ CollectDay
    \/ AnalyzeTrends
    \/ Summarize
    \/ RenderCharts
    \/ ComposeReport

Spec == Init /\ [][Next]_vars

-----------------------------------------------------------------------------
(* Properties of a run of main() *)

IsPrefix(s, t) == Len(s) <= Len(t) /\ s = SubSeq(t, 1, Len(s))

Entered(stage) == \E k \in 1..Len(stages) : stages[k] = stage

Abs(x) == IF x < 0 THEN 0 - x ELSE x

\* C1: the stages are entered in the fixed order, each at most once; the
\* stage under way is the last one entered; a run is in DONE only with all
\* five stages entered, no error and exit status 0; an exception that leaves
\* a stage (or the construction of the monitor) puts the run in FAILED, and
\* FAILED has the error printed and exit status 1; nothing else sets a status.
C1_StageOrder ==
    /\ IsPrefix(stages, StageNames)
    /\ (\E k \in 1..Len(StageNames) : StageNames[k] = pc)
          => (stages # << >> /\ stages[Len(stages)] = pc)
    /\ pc = "DONE" => (stages = StageNames /\ error = "none" /\ exit_code = 0)
    /\ error # "none" => pc = "FAILED"
    /\ pc = "FAILED" => (error # "none" /\ printed = "error" /\ exit_code = 1)
    /\ pc \notin { "DONE", "FAILED", "NO_TOKEN" } => exit_code = 0 - 1

C1_Witness ==
    /\ pc = "FAILED"
    /\ error = "TransportError"
    /\ stages = << "FETCHING_METRICS", "ANALYZING_TRENDS" >>
    /\ exit_code = 1

\* C2: with GITHUB_TOKEN unset or empty the run goes from its first step to
\* exit status 1 and nothing else happens: no remote call, no stage, no file.
C2_MissingToken ==
    (GITHUB_TOKEN = NoToken \/ GITHUB_TOKEN = "") =>
        /\ pc \in { "INIT", "NO_TOKEN" }
        /\ pc = "NO_TOKEN" => (exit_code = 1 /\ printed = "token_error")
        /\ ~remote_called
        /\ stages = << >>
        /\ files = {}

C2_Witness == pc = "NO_TOKEN" /\ GITHUB_TOKEN = "" /\ exit_code = 1

RECURSIVE Substitute(_, _, _)
\* tpl from the n-th piece on with each "{", name, "}" of a name of kw replaced
\* by kw's value and every other piece kept
Substitute(tpl, kw, n) ==
    IF n > Len(tpl) THEN << >>
    ELSE IF n + 2 <= Len(tpl) /\ tpl[n] = "{" /\ tpl[n + 2] = "}" /\ HasKey(kw, tpl[n + 1])
    THEN << kw[CHOOSE j \in 1..Len(kw) : kw[j].k = tpl[n + 1]].v >>
         \o Substitute(tpl, kw, n + 3)
    ELSE << tpl[n] >> \o Substitute(tpl, kw, n + 1)

\* C3: once generate_html_report has been called on the run's dashboard data
\* and visualizations it has returned, without raising, the template with
\* every placeholder replaced by its value and all other text unchanged.
C3_ReportComposed ==
    (Entered("COMPOSING_REPORT") /\ pc # "COMPOSING_REPORT") =>
        /\ error = "none"
        /\ html_report =
               Substitute(html_template,
                          FormatArgs(dashboard_data, visualizations, Now(today)), 1)

\* C4: a day whose collection raised is left out of metrics_data and the loop
\* goes on with the next day, and no run is aborted by the days left out.
C4_DayErrorsNeverAbort ==
    /\ Len(metrics_data) + Cardinality(skipped) = i
    /\ \A k \in 1..Len(metrics_data) :
           \A d \in skipped : metrics_data[k].date # IsoFormat(today - d)
    /\ (pc = "FAILED" /\ skipped # {}) => error # "KeyError: 'date'"

CountFields ==
    { "upstream_issues_opened", "upstream_issues_closed", "upstream_prs_opened",
      "upstream_prs_merged", "upstream_releases", "downstream_tasks_created",
      "downstream_tasks_completed", "sync_activities" }

\* the number of items of s created on a day of the window that was not skipped
CreatedOnKeptDays(s) ==
    Cardinality({ k \in 1..Len(s) :
                    \E d \in (0..(WindowDays - 1)) \ skipped :
                        s[k].created_at \div TicksPerDay = today - d })

\* the total of field f over the records of ms, added up from the last one
SumFromLast(ms, f) ==
    LET part[n \in 0..Len(ms)] == IF n = 0 THEN 0 ELSE part[n - 1] + ms[Len(ms) + 1 - n][f]
    IN  part[Len(ms)]

\* C5: in the data generate_dashboard_data returns every count of every daily
\* record is a natural number, and the three totals are the sums of the
\* records' opened / created counts, which are the items created on the days
\* that were not skipped.
C5_TotalsAreSums ==
    dashboard_data # Unset =>
        LET ms == dashboard_data.daily_metrics
            sm == dashboard_data.summary
        IN  /\ \A k \in 1..Len(ms) : \A f \in CountFields : ms[k][f] \in Nat
            /\ sm.total_upstream_issues = SumFromLast(ms, "upstream_issues_opened")
            /\ sm.total_upstream_prs = SumFromLast(ms, "upstream_prs_opened")
            /\ sm.total_downstream_tasks = SumFromLast(ms, "downstream_tasks_created")
            /\ sm.total_upstream_issues = CreatedOnKeptDays(upstream_issues)
            /\ sm.total_upstream_prs = CreatedOnKeptDays(upstream_prs)
            /\ sm.total_downstream_tasks =
                   CreatedOnKeptDays(WithLabel(downstream_issues, "upstream-sync"))

C5_Witness ==
    /\ dashboard_data # Unset
    /\ 0 \in skipped
    /\ dashboard_data.summary.total_upstream_issues = 1
    /\ Len(upstream_issues) = 3
    /\ Len(dashboard_data.daily_metrics) = WindowDays - 1

\* C6 as claimed: the reported sync efficiency is exactly tasks / issues * 100
\* when issues > 0, and 0 when issues = 0 (sync_efficiency is in hundredths).
C6_ExactRatio ==
    dashboard_data # Unset =>
        LET sm == dashboard_data.summary
        IN  IF sm.total_upstream_issues > 0
            THEN sm.sync_efficiency * sm.total_upstream_issues
                     = sm.total_downstream_tasks * 10000
            ELSE sm.sync_efficiency = 0

\* C6 as amended: the reported sync efficiency is tasks / issues * 100 rounded
\* to two decimal places (at most half a hundredth away) when issues > 0, and
\* 0 when issues = 0, whatever the number of tasks; the summary stage raises
\* no error in either case.
C6_RoundedRatio ==
    /\ pc = "SUMMARIZING" => error = "none"
    /\ dashboard_data # Unset =>
        LET sm == dashboard_data.summary
        IN  IF sm.total_upstream_issues > 0
            THEN 2 * Abs(sm.sync_efficiency * sm.total_upstream_issues
                         - sm.total_downstream_tasks * 10000)
                     <= sm.total_upstream_issues
            ELSE sm.sync_efficiency = 0

C6_Witness ==
    /\ dashboard_data # Unset
    /\ dashboard_data.summary.total_upstream_issues = 3
    /\ dashboard_data.summary.total_downstream_tasks = 2
    /\ dashboard_data.summary.sync_efficiency = 6667

-----------------------------------------------------------------------------
(* analyze_upstream_trends on its own *)

T_Prefix == << "p", "r", "e", "f", "i", "x" >>
T_Address == << "A", "d", "d", "r", "e", "s", "s" >>
T_Readme == << "R", "E", "A", "D", "M", "E" >>
T_SpeedUp == << "S", "p", "e", "e", "d", " ", "u", "p" >>
T_Refactor == << "R", "e", "f", "a", "c", "t", "o", "r" >>
T_Feat == << "f", "e", "a", "t" >>
B_Crash == << "i", "t", " ", "c", "r", "a", "s", "h", "e", "s" >>
B_Docs == << "s", "e", "e", " ", "d", "o", "c", "s" >>
B_Add == << "p", "l", "e", "a", "s", "e", " ", "a", "d", "d" >>
B_Cleanup == << "c", "l", "e", "a", "n", "u", "p" >>

TextIssue(title, body) == Issue(At(Today0, 0), NoneTime, At(Today0, 0), title, body, "alice", {})
TextPull(title, body) == Pull(At(Today0, 0), NoneTime, title, body, "bob")

TextIssues ==
    { TextIssue(T_Bug, NoneText), TextIssue(T_AddFeature, B_Crash),
      TextIssue(T_AddFeature, NoneText), TextIssue(T_Prefix, << >>),
      TextIssue(T_Address, B_Docs), TextIssue(T_Readme, T_SpeedUp),
      TextIssue(T_SpeedUp, B_Plain), TextIssue(T_Hello, NoneText) }

TextPulls ==
    { TextPull(T_FixDocs, NoneText), TextPull(T_Feat, B_Cleanup),
      TextPull(T_Refactor, B_Docs), TextPull(T_Readme, B_Docs),
      TextPull(T_Hello, NoneText), TextPull(T_Bug, B_Add) }

Author(n) == "u" \o Pad2(n)

AuthorIssue(login) == Issue(At(Today0, 0), NoneTime, At(Today0, 0), T_Hello, NoneText, login, {})
AuthorPull(login) == Pull(At(Today0, 0), NoneTime, T_Hello, NoneText, login)

\* one item of each of TopN + 1 authors, then up to MaxExtra more items
AuthorScans ==
    { [k \in 1..(TopN + 1) |-> Author(k)] \o extra :
        extra \in SeqsUpTo({ Author(2), Author(TopN), Author(TopN + 1) }, MaxExtra) }
    \cup SeqsUpTo({ Author(1), Author(2) }, MaxExtra + 1)

ReleaseTimes ==
    { At(Today0, 0), At(Today0 + MonthLen, 0), At(Today0 + MonthLen, 1),
      At(Today0 + MonthLen + 15, 0), At(Today0 + 3 * MonthLen, 0) }

\* the list lengths around the scan limit
LongLens == { ScanLimit - 1, ScanLimit, ScanLimit + 1 }

\* lists of n issues: one without a keyword between a first and a last that
\* have a keyword or not
LongIssues ==
    { << first >> \o [k \in 1..(n - 2) |-> TextIssue(T_Hello, NoneText)] \o << last >> :
        n \in LongLens,
        first \in { TextIssue(T_Bug, NoneText), TextIssue(T_Hello, NoneText) },
        last \in { TextIssue(T_Bug, NoneText), TextIssue(T_Hello, NoneText) } }

LongPulls ==
    { << first >> \o [k \in 1..(n - 2) |-> TextPull(T_Hello, NoneText)] \o << last >> :
        n \in LongLens,
        first \in { TextPull(T_FixDocs, NoneText), TextPull(T_Hello, NoneText) },
        last \in { TextPull(T_FixDocs, NoneText), TextPull(T_Hello, NoneText) } }

Idle ==
    /\ GITHUB_TOKEN = "ghp_token"
    /\ today = Today0
    /\ outage = {}
    /\ exit_code = 0 - 1
    /\ printed = ""
    /\ stages = << >>
    /\ remote_called = FALSE
    /\ files = {}
    /\ i = 0
    /\ metrics_data = << >>
    /\ skipped = {}
    /\ trends = Unset
    /\ dashboard_data = Unset
    /\ visualizations = << >>
    /\ html_report = << >>
    /\ error = "none"
    /\ requested = << >>
    /\ caught = {}

InitTrends ==
    /\ Idle
    /\ pc = "TRENDS_CALL"
    /\ date = Today0
    /\ downstream_issues = << >>
    /\ \/ /\ upstream_issues \in SeqsUpTo(TextIssues, MaxScan)
          /\ upstream_prs \in SeqsUpTo(TextPulls, MaxPrScan)
          /\ upstream_releases = << >>
       \/ /\ \E scan \in AuthorScans :
               \E m \in { 0, TopN + 1, Len(scan) } :
                  /\ m <= Len(scan)
                  /\ upstream_issues = [k \in 1..m |-> AuthorIssue(scan[k])]
                  /\ upstream_prs = [k \in 1..(Len(scan) - m) |-> AuthorPull(scan[m + k])]
          /\ upstream_releases = << >>
       \/ /\ upstream_issues = << >>
          /\ upstream_prs = << >>
          /\ upstream_releases \in
                 { [k \in 1..Len(ts) |-> Release(ts[k])] :
                     ts \in SeqsUpTo(ReleaseTimes, MaxReleases) }
       \/ /\ upstream_issues \in LongIssues
          /\ upstream_prs \in LongPulls
          /\ upstream_releases = << >>

\* trends = analyze_upstream_trends(): returns or raises
CallAnalyzeTrends ==
    /\ pc = "TRENDS_CALL"
    /\ LET r == analyze_upstream_trends(upstream_issues, upstream_prs, upstream_releases)
       IN  IF r.raised
           THEN error' = r.exc /\ UNCHANGED trends
           ELSE trends' = r.val /\ UNCHANGED error
    /\ pc' = "TRENDS_RETURNED"
    /\ UNCHANGED << Env, exit_code, printed, stages, remote_called, files, i, date,
                    metrics_data, skipped, dashboard_data, visualizations, html_report,
                    requested, caught >>

SpecTrends == InitTrends /\ [][CallAnalyzeTrends]_vars

\* the lower-cased title, a space, and the lower-cased body ("" for None)
ClaimedText(x) ==
    [k \in 1..Len(x.title) |-> LowerChar(x.title[k])] \o << " " >> \o
    (IF x.body = NoneText THEN << >> ELSE [k \in 1..Len(x.body) |-> LowerChar(x.body[k])])

\* the first category of order with a keyword in text, "other" without one
FirstMatch(order, text) ==
    IF \E n \in 1..Len(order) : AnyIn(order[n].kws, text)
    THEN order[CHOOSE n \in 1..Len(order) :
                   /\ AnyIn(order[n].kws, text)
                   /\ \A m \in 1..(n - 1) : ~AnyIn(order[m].kws, text)].cat
    ELSE "other"

IssueOrder ==
    << [cat |-> "bug", kws |-> IssueBugKw], [cat |-> "feature", kws |-> IssueFeatureKw],
       [cat |-> "documentation", kws |-> IssueDocKw],
       [cat |-> "performance", kws |-> IssuePerfKw] >>

PrOrder ==
    << [cat |-> "fix", kws |-> PrFixKw], [cat |-> "feature", kws |-> PrFeatureKw],
       [cat |-> "refactor", kws |-> PrRefactorKw],
       [cat |-> "documentation", kws |-> PrDocKw] >>

AllCategories ==
    { "bug", "fix", "feature", "refactor", "documentation", "performance", "other" }

\* C7: analyze_upstream_trends never raises on an item's text, an absent body
\* included, and counts each scanned issue under the first of bug, feature,
\* documentation, performance with a keyword in its lower-cased title and
\* body, under other without one; each pull request likewise under the first
\* of fix, feature, refactor, documentation, else other.
C7_FirstMatchWins ==
    pc = "TRENDS_RETURNED" =>
        /\ error = "none"
        /\ LET ofIssue == [k \in 1..Len(Take(upstream_issues, ScanLimit)) |->
                              FirstMatch(IssueOrder, ClaimedText(upstream_issues[k]))]
               ofPull == [k \in 1..Len(Take(upstream_prs, ScanLimit)) |->
                             FirstMatch(PrOrder, ClaimedText(upstream_prs[k]))]
           IN  \A c \in AllCategories :
                 /\ Get0(trends.issue_categories, c) =
                        Cardinality({ k \in DOMAIN ofIssue : ofIssue[k] = c })
                 /\ Get0(trends.pr_types, c) =
                        Cardinality({ k \in DOMAIN ofPull : ofPull[k] = c })

C7_Witness ==
    /\ pc = "TRENDS_RETURNED"
    /\ Len(upstream_issues) = 2
    /\ upstream_issues[1] = TextIssue(T_AddFeature, B_Crash)
    /\ upstream_issues[2] = TextIssue(T_Address, B_Docs)
    /\ upstream_prs = << TextPull(T_FixDocs, NoneText) >>
    /\ trends.issue_categories = << [k |-> "bug", v |-> 1], [k |-> "feature", v |-> 1] >>
    /\ trends.pr_types = << [k |-> "fix", v |-> 1] >>

\* the logins of the scanned items, issues first
ScanLogins == Logins(Take(upstream_issues, ScanLimit)) \o Logins(Take(upstream_prs, ScanLimit))

CountOf(a) == Cardinality({ k \in 1..Len(ScanLogins) : ScanLogins[k] = a })

FirstSeen(a) == CHOOSE k \in 1..Len(ScanLogins) :
                    ScanLogins[k] = a /\ \A j \in 1..(k - 1) : ScanLogins[j] # a

ScanAuthors == { ScanLogins[k] : k \in 1..Len(ScanLogins) }

\* C8: top_contributors has at most 10 entries and as many as there are
\* authors up to 10, no author twice, each with the number of scanned issues
\* and pull requests of that author, in non-increasing order of count and,
\* within a count, in order of first appearance in the scan; an author left
\* out has a smaller count than every entry, or the last entry's count and a
\* later first appearance.
C8_TopContributors ==
    pc = "TRENDS_RETURNED" =>
        LET tc == trends.top_contributors
            kept == { tc[n].k : n \in 1..Len(tc) }
        IN  /\ Len(tc) <= 10
            /\ Len(tc) = IF Cardinality(ScanAuthors) < 10 THEN Cardinality(ScanAuthors) ELSE 10
            /\ \A n, m \in 1..Len(tc) : tc[n].k = tc[m].k => n = m
            /\ \A n \in 1..Len(tc) : tc[n].k \in ScanAuthors /\ tc[n].v = CountOf(tc[n].k)
            /\ \A n \in 1..(Len(tc) - 1) :
                   \/ tc[n].v > tc[n + 1].v
                   \/ tc[n].v = tc[n + 1].v /\ FirstSeen(tc[n].k) < FirstSeen(tc[n + 1].k)
            /\ \A a \in ScanAuthors \ kept :
                   \A n \in 1..Len(tc) :
                       \/ CountOf(a) < tc[n].v
                       \/ CountOf(a) = tc[n].v /\ FirstSeen(tc[n].k) < FirstSeen(a)

C8_Witness ==
    /\ pc = "TRENDS_RETURNED"
    /\ Cardinality(ScanAuthors) = TopN + 1
    /\ upstream_prs # << >>
    /\ Len(trends.top_contributors) = TopN
    /\ trends.top_contributors[1] = [k |-> Author(TopN + 1), v |-> 3]
    /\ trends.top_contributors[TopN].k = Author(TopN - 1)
    /\ CountOf(Author(TopN)) = 1

MinOf(s) == 0 - MaxOf([k \in 1..Len(s) |-> 0 - s[k]])

\* C9: release_frequency is 0 for fewer than 2 releases and otherwise
\* n / max(D / 30, 1), D the whole days from the oldest to the newest
\* publication time of the list, whatever its order.
C9_ReleaseFrequency ==
    (pc = "TRENDS_RETURNED" /\ error = "none") =>
        LET n == Len(upstream_releases)
            f == trends.release_frequency
        IN  IF n < 2 THEN f.num = 0
            ELSE LET ts == [k \in 1..n |-> upstream_releases[k].published_at]
                     D == (MaxOf(ts) - MinOf(ts)) \div TicksPerDay
                 IN  IF D > 30 THEN f.num * D = n * 30 * f.den
                     ELSE f.num = n * f.den

-----------------------------------------------------------------------------
(* collect_daily_metrics on its own *)

DailyDates == { Today0, Today0 - 1 }

\* datetimes around the days asked for, and None
DailyTimes ==
    { NoneTime, At(Today0 - 1, TicksPerDay - 1), At(Today0, 0),
      At(Today0, TicksPerDay - 1), At(Today0 + 1, 0) }

DailyIssues ==
    { Issue(c, z, c, T_Hello, NoneText, "alice", {}) :
        c \in { At(Today0 - 1, TicksPerDay - 1), At(Today0, 0) }, z \in DailyTimes }

DailyTasks ==
    { Issue(At(Today0, 0), z, At(Today0, 0), T_Hello, NoneText, "dave",
            { "upstream-sync" }) : z \in DailyTimes }

DailyPulls ==
    { Pull(At(Today0, 0), m, T_Hello, NoneText, "bob") : m \in DailyTimes }

DailyReleases == { Release(p) : p \in DailyTimes }

\* 5 issues opened on Today0, 3 of them closed on it
FiveOpenedThreeClosed ==
    [ k \in 1..5 |->
        Issue(At(Today0, 0), IF k <= 3 THEN At(Today0, 1) ELSE NoneTime, At(Today0, 1),
              T_Hello, NoneText, "alice", {}) ]

InitDaily ==
    /\ Idle
    /\ pc = "DAILY_CALL"
    /\ date \in DailyDates
    /\ \/ /\ upstream_issues \in SeqsUpTo(DailyIssues, MaxDaily)
          /\ upstream_prs \in SeqsUpTo(DailyPulls, 1)
          /\ upstream_releases \in SeqsUpTo(DailyReleases, 1)
          /\ downstream_issues \in SeqsUpTo(DailyTasks, MaxDaily)
       \/ /\ upstream_issues = FiveOpenedThreeClosed
          /\ upstream_prs = << >>
          /\ upstream_releases \in
                 { << Release(At(Today0, 0)) >>,
                   << Release(NoneTime), Release(At(Today0, 0)) >> }
          /\ downstream_issues = << >>

\* metrics = self.collect_daily_metrics(date): returns or raises
CallCollectDaily ==
    /\ pc = "DAILY_CALL"
    /\ LET r == collect_daily_metrics(date, upstream_issues, upstream_prs,
                                      upstream_releases, downstream_issues)
       IN  IF r.raised
           THEN error' = r.exc /\ UNCHANGED metrics_data
           ELSE metrics_data' = << r.val >> /\ UNCHANGED error
    /\ pc' = "DAILY_RETURNED"
    /\ UNCHANGED << Env, exit_code, printed, stages, remote_called, files, i, date,
                    skipped, trends, dashboard_data, visualizations, html_report,
                    requested, caught >>

SpecDaily == InitDaily /\ [][CallCollectDaily]_vars

\* whether the datetime dt is set and lies within day d
FallsOn(dt, d) == dt # NoneTime /\ d * TicksPerDay <= dt /\ dt < (d + 1) * TicksPerDay

\* the number of items of s whose datetime field f is set and lies within day d
NumberOn(s, f, d) == Cardinality({ k \in 1..Len(s) : FallsOn(s[k][f], d) })

\* C10: collect_daily_metrics(d) raises nothing and returns the record of
\* date d whose counts are the issues created on d, the issues closed on d,
\* the pull requests created and merged on d, the releases published on d and
\* the upstream-sync issues created and closed on d, an item counting on a
\* day only when its datetime is set and falls on that day.
C10_DailyCounts ==
    pc = "DAILY_RETURNED" =>
        /\ error = "none"
        /\ Len(metrics_data) = 1
        /\ LET m == metrics_data[1]
               tasks == WithLabel(downstream_issues, "upstream-sync")
           IN  /\ m.date = IsoFormat(date)
               /\ m.upstream_issues_opened = NumberOn(upstream_issues, "created_at", date)
               /\ m.upstream_issues_closed = NumberOn(upstream_issues, "closed_at", date)
               /\ m.upstream_prs_opened = NumberOn(upstream_prs, "created_at", date)
               /\ m.upstream_prs_merged = NumberOn(upstream_prs, "merged_at", date)
               /\ m.upstream_releases = NumberOn(upstream_releases, "published_at", date)
               /\ m.downstream_tasks_created = NumberOn(tasks, "created_at", date)
               /\ m.downstream_tasks_completed = NumberOn(tasks, "closed_at", date)

C10_Witness ==
    /\ pc = "DAILY_RETURNED"
    /\ date = Today0
    /\ Len(upstream_releases) = 2
    /\ upstream_releases[1].published_at = NoneTime
    /\ metrics_data[1].upstream_issues_opened = 5
    /\ metrics_data[1].upstream_issues_closed = 3
    /\ metrics_data[1].upstream_prs_opened = 0
    /\ metrics_data[1].upstream_prs_merged = 0
    /\ metrics_data[1].upstream_releases = 1

-----------------------------------------------------------------------------
(* Where exceptions are caught *)

PerDayError == Caught("collect_daily_metrics", "generate_dashboard_data")

LastSyncError == Caught("get_last_sync_time", "get_last_sync_time")

\* C11 as stated: every exception raised outside collect_daily_metrics is caught
\* by main's handler, and by no other, and the run ends with exit status 1.
C11_OnlyMainCatches ==
    \A c \in caught :
        c.origin # "collect_daily_metrics" =>
            (c.handler = "main" /\ pc = "FAILED" /\ exit_code = 1)

\* C11: an exception raised by collect_daily_metrics is caught by the loop of
\* generate_dashboard_data, one raised inside get_last_sync_time is caught
\* there (the summary then says "Unknown") and in both cases the run goes on;
\* every other exception is caught by main's handler and by no other, and the
\* run is then over with the error recorded and exit status 1.  A run fails
\* exactly when main's handler caught something.
C11_ErrorHandling ==
    /\ \A c \in caught :
          /\ c.origin = "collect_daily_metrics" => c = PerDayError
          /\ c.origin = "get_last_sync_time" =>
                /\ c = LastSyncError
                /\ dashboard_data # Unset
                /\ dashboard_data.current_status.last_sync = "Unknown"
          /\ c.origin \notin { "collect_daily_metrics", "get_last_sync_time" } =>
                /\ c.handler = "main"
                /\ pc = "FAILED"
                /\ error # "none"
                /\ exit_code = 1
    /\ pc = "FAILED" <=> (\E c \in caught : c.handler = "main")
    /\ Cardinality({ c \in caught : c.handler = "main" }) <= 1
    /\ PerDayError \in caught <=> skipped # {}

C11_Witness ==
    /\ caught = { PerDayError, LastSyncError, Caught("create_visualizations", "main") }
    /\ pc = "FAILED"
    /\ exit_code = 1
    /\ dashboard_data.current_status.last_sync = "Unknown"

-----------------------------------------------------------------------------
(* The files a failed run leaves *)

ChartFiles == { ActivityPng, CategoriesPng, ContributorsPng }

\* the files create_visualizations returned the paths of
ReturnedCharts == { visualizations[k].v : k \in 1..Len(visualizations) }

-----------------------------------------------------------------------------
(* The dates of the window *)

\* the requested dates whose collection did not raise, in the order requested
KeptDates == SelectSeq(requested, LAMBDA d : (today - d) \notin skipped)

\* C13: the dates requested so far are today, today - 1, ... in that order,
\* 30 of them once the loop is left and never more; there are as many records
\* as requested dates whose collection did not raise, and the newest record is
\* of the newest such date and of a date no earlier record has; never more
\* than 30 records, and 30 when no day failed.  Once the data is built,
\* daily_metrics is one record for each requested date whose collection did
\* not raise, in the order requested, no date twice, and data_period names
\* today - 29 and today whatever was dropped.
C13_ThirtyDates ==
    LET kept == KeptDates
        n == Len(metrics_data)
    IN  /\ Len(requested) <= 30
        /\ \A k \in 1..Len(requested) : requested[k] = today - (k - 1)
        /\ Entered("ANALYZING_TRENDS") => Len(requested) = 30
        /\ n = Len(kept)
        /\ n > 0 => metrics_data[n].date = IsoFormat(kept[n])
        /\ \A j \in 1..(n - 1) : metrics_data[j].date # metrics_data[n].date
        /\ n <= 30
        /\ (Entered("ANALYZING_TRENDS") /\ skipped = {}) => n = 30
        /\ dashboard_data # Unset =>
              LET dm == dashboard_data.daily_metrics
              IN  /\ Len(dm) = Len(kept)
                  /\ \A k \in 1..Len(dm) : dm[k].date = IsoFormat(kept[k])
                  /\ \A j \in 1..Len(dm) : \A k \in (j + 1)..Len(dm) :
                        dm[j].date # dm[k].date
                  /\ dashboard_data.summary.data_period =
                        "Last 30 days (" \o IsoFormat(today - 29) \o " to "
                            \o IsoFormat(today) \o ")"

C13_Witness ==
    /\ dashboard_data # Unset
    /\ skipped = { 0, 29 }
    /\ Len(dashboard_data.daily_metrics) = 28
    /\ dashboard_data.daily_metrics[1].date = IsoFormat(today - 1)
    /\ dashboard_data.daily_metrics[28].date = IsoFormat(today - 28)
    /\ today = 45 => dashboard_data.summary.data_period =
                        "Last 30 days (2026-01-17 to 2026-02-15)"

-----------------------------------------------------------------------------
(* The category counts *)

IssueCategoryNames == { "bug", "feature", "documentation", "performance", "other" }

PrTypeNames == { "fix", "feature", "refactor", "documentation", "other" }

\* d has each key once, every key in names, every count at least 1, and the
\* counts sum to total
CountsOver(d, names, total) ==
    /\ \A k \in 1..Len(d) : d[k].k \in names /\ d[k].v >= 1
    /\ \A j, k \in 1..Len(d) : j # k => d[j].k # d[k].k
    /\ SumSeq([k \in 1..Len(d) |-> d[k].v]) = total

\* C14: when analyze_upstream_trends returns, issue_categories has only keys
\* among bug, feature, documentation, performance, other, each once and with
\* a count of at least 1, and its counts sum to min(100, number of issues
\* fetched); pr_types likewise over fix, feature, refactor, documentation,
\* other and min(100, number of pull requests fetched).
C14_CategoryCounts ==
    (pc = "TRENDS_RETURNED" /\ error = "none") =>
        /\ CountsOver(trends.issue_categories, IssueCategoryNames,
                      IF Len(upstream_issues) < 100 THEN Len(upstream_issues) ELSE 100)
        /\ CountsOver(trends.pr_types, PrTypeNames,
                      IF Len(upstream_prs) < 100 THEN Len(upstream_prs) ELSE 100)

C14_Witness ==
    /\ pc = "TRENDS_RETURNED"
    /\ error = "none"
    /\ Len(upstream_issues) = 101
    /\ upstream_issues[1].title = T_Hello
    /\ upstream_issues[101].title = T_Bug
    /\ trends.issue_categories = << [k |-> "other", v |-> 100] >>
    /\ Len(upstream_prs) = 99
    /\ upstream_prs[99].title = T_FixDocs
    /\ trends.pr_types = << [k |-> "other", v |-> 98], [k |-> "fix", v |-> 1] >>

====
